---- MODULE Spec2Model ----
(***************************************************************************)
(* A model of the hand-built growable array of src/src/rustonomicon/vec.rs *)
(* (src/src/unsafe/vec.rs is the same code with more commentary) and of    *)
(* its consuming iterator VecIntoIter.                                     *)
(*                                                                         *)
(* The heap buffer is modelled slot by slot.  A slot holds "bits": the     *)
(* identity of the element value last written there (1..MaxElems) or       *)
(* Garbage for memory that was never written.  ptr::read is a bitwise copy *)
(* and leaves the bits in place, exactly as in the code; whether a slot is *)
(* initialised is decided by len (or by start/end in the iterator), never  *)
(* by the bits.  Every element value has an identity of its own, so that   *)
(* drops and hand-overs to the caller can be counted per element.          *)
(*                                                                         *)
(* usize is WordBits wide.  Arithmetic that the code performs on usize is  *)
(* done modulo 2^WordBits; a build with overflow checks (checks = TRUE, a  *)
(* debug build) panics where a build without them wraps.  A panic leaves   *)
(* the container usable (the caller may catch it, and unwinding runs Drop  *)
(* for Vec); handle_alloc_error and a memmove that leaves the allocation   *)
(* end the process (phase "abort").                                        *)
(*                                                                         *)
(* An element passed to push or insert gets its identity when it enters    *)
(* the buffer; one that a panicking call drops before that is recorded in  *)
(* the call's record only.                                                 *)
(***************************************************************************)
EXTENDS Integers, Sequences, FiniteSets, TLC

\* ---------------------------------------------------------------- bounds
\* Width of usize in bits (isize::MAX = 2^(WordBits-1) - 1).
WordBits == 4
\* index is called on the slices [1], [1, 2], ... of up to MaxSliceLen elements
\* (and the empty one), with idx in 0..MaxSliceIdx.
MaxSliceLen == 6
MaxSliceIdx == 7
\* Number of element values that enter the buffer.
MaxElems == 3
\* mem::size_of::<T>() ranges over 0..MaxElemSize.
MaxElemSize == 2
\* The index argument of insert and remove ranges over 0..MaxIndex.
MaxIndex == 4
\* Callers of allocate_new_id that run concurrently, each calling once
IdCallers == 2
\* How many stores a Relaxed load of NEXT_ID may lag behind the latest one
MaxStale == 1
\* Callers of get_data that run concurrently, each calling once
LazyCallers == 3
\* Threads that mutex_lock spawns (100 in the source: for _ in 0..100)
LockThreadCount == 3
\* Items the producer of thread_condvar pushes (for i in 0.. in the source)
MaxItems == 3

\* ------------------------------------------------- constants of the source
\* assert!(current < 100, "ID overflowed")
IdLimit == 100
\* for _ in 0..150
Spawns == 150
\* AtomicU8: values are taken modulo 2^8
U8Mod == 256

\* --------------------------------------------------------- word arithmetic
Pow2(n) == IF n = 0 THEN 1 ELSE LET half[i \in 0..n] == IF i = 0 THEN 1 ELSE 2 * half[i - 1] IN half[n]
USizeMod == Pow2(WordBits)
USizeMax == USizeMod - 1
ISizeMax == Pow2(WordBits - 1) - 1
WrapSub(a, b) == (a - b + USizeMod) % USizeMod
WrapMul(a, b) == (a * b) % USizeMod

\* Bits of memory nobody has written.
Garbage == 0
Ids == 1..MaxElems
Bits == {Garbage} \cup Ids
EmptyMem == [i \in {} |-> Garbage]

VARIABLES
    phase,        \* "new" | "rejected" | "vec" | "iter" | "dropped_vec" | "dropped_iter" | "abort"
    checks,       \* TRUE: the build panics on integer overflow; FALSE: it wraps
    elemSize,     \* mem::size_of::<T>()
    cap, len,     \* Vec.cap, Vec.len
    mem,          \* the buffer behind Vec.ptr / VecIntoIter.buf: slot -> bits
    held,         \* an allocation is held behind ptr
    nextId,       \* identity of the next element value to enter the buffer
    drops,        \* element identity -> how often its destructor ran (values that entered the buffer)
    handed,       \* element identities returned to the caller
    freed,        \* number of alloc::dealloc calls
    vecDropRuns,  \* number of runs of Drop for Vec
    itCap, start, end,   \* VecIntoIter.cap, .start, .end (as slot offsets from buf)
    orig,         \* the element sequence of the container when into_iter took it
    yieldF, yieldB,      \* what next() and next_back() have returned, in order
    pushed, npop, startLen,  \* the current run of pushes, the pops that followed it, len before it
    prePush,      \* the container as the last push of the current run found it
    preIns,       \* the container as the last insert found it, kept over the remove after it
    NEXT_ID,      \* allocate_new_id: the static AtomicU8
    idPc,         \* allocate_new_id: each concurrent caller's position
    current,      \* allocate_new_id: each concurrent caller's local `current`
    retried,      \* allocate_new_id: whether a caller's compare_exchange_weak has failed
    ids,          \* allocate_new_id: the IDs returned so far
    calls,        \* allocate_new_id: the number of calls that returned
    mainIter,     \* allocate_new_id: iterations of main's loop completed
    mainPc,       \* allocate_new_id: main's position
    DATA,         \* get_data: the static AtomicPtr (Null or an allocation)
    lzPc,         \* get_data: each caller's position
    lzP,          \* get_data: each caller's local `p`
    lzE,          \* get_data: each caller's `e` of the Err arm
    lzRet,        \* get_data: what each caller's call returned
    lzAllocd,     \* get_data: the allocations made (named by their caller)
    lzFreed,      \* get_data: how often each allocation was freed
    lzStores,     \* get_data: how often DATA was stored to
    LOCKED,       \* mutex_lock: the static AtomicBool
    DATA_MUTEX,   \* mutex_lock: the static String, as its number of "!"
    lkPc,         \* mutex_lock: each spawned thread's position
    lkMain,       \* mutex_lock: main's position
    lkSpawned,    \* mutex_lock: threads spawned so far
    lkIn,         \* mutex_lock: who is inside an access to DATA_MUTEX (0 is main)
    lkWon,        \* mutex_lock: threads whose compare_exchange succeeded
    lkTouched,    \* mutex_lock: threads that have accessed DATA_MUTEX
    A,            \* SeqCst flags: the static AtomicBool A
    B,            \* SeqCst flags: the static AtomicBool B
    S,            \* SeqCst flags: the static String, as a sequence of characters
    scPc,         \* SeqCst flags: position of the threads ta and tb
    scSaw,        \* SeqCst flags: the value each thread's load returned
    scMain,       \* SeqCst flags: main's position
    scIn,         \* SeqCst flags: who is inside an access to S
    scFound,      \* SeqCst flags: threads that found the other's flag false
    scOrder,      \* SeqCst flags: the SeqCst operations so far, in their single total order
    queue,        \* thread_condvar: the VecDeque inside the Mutex
    cvMutex,      \* thread_condvar: who holds the Mutex ("free", "consumer", "producer")
    cvPc,         \* thread_condvar: the consumer's position
    cvItem,       \* thread_condvar: the consumer's local `item`
    prPc,         \* thread_condvar: the producer's position
    prI,          \* thread_condvar: the producer's loop variable i
    consumed,     \* thread_condvar: the items the consumer has printed, in order
    cvWakes,      \* thread_condvar: whether a notify_one has woken the waiting consumer
    abs,          \* the abstract sequence the calls made so far produce
    arr,          \* the slice given to the free function index (src/src/unsafe.rs)
    last          \* the last call: its arguments, its result and the state it started in

vars == <<phase, checks, elemSize, cap, len, mem, held, nextId, drops, handed, freed,
          vecDropRuns, itCap, start, end, orig, yieldF, yieldB, pushed, npop, startLen,
          prePush, preIns, abs, arr, last,
          NEXT_ID, idPc, current, retried, ids, calls, mainIter, mainPc,
          DATA, lzPc, lzP, lzE, lzRet, lzAllocd, lzFreed, lzStores,
          LOCKED, DATA_MUTEX, lkPc, lkMain, lkSpawned, lkIn, lkWon, lkTouched,
          A, B, S, scPc, scSaw, scMain, scIn, scFound, scOrder,
          queue, cvMutex, cvPc, cvItem, prPc, prI, consumed, cvWakes>>

iterVars == <<itCap, start, end, orig, yieldF, yieldB>>
runVars == <<pushed, npop, startLen, prePush, preIns>>
idVars == <<NEXT_ID, idPc, current, retried, ids, calls, mainIter, mainPc>>
\* The variables of the programs other than the container
lazyVars == <<DATA, lzPc, lzP, lzE, lzRet, lzAllocd, lzFreed, lzStores>>
lockVars == <<LOCKED, DATA_MUTEX, lkPc, lkMain, lkSpawned, lkIn, lkWon, lkTouched>>
scVars == <<A, B, S, scPc, scSaw, scMain, scIn, scFound, scOrder>>
cvVars == <<queue, cvMutex, cvPc, cvItem, prPc, prI, consumed, cvWakes>>
exampleVars == <<idVars, lazyVars, lockVars, scVars, cvVars>>

\* ---------------------------------------------------------------- helpers
\* The element sequence held in slots [0, l) of m.
Elems(m, l) == [i \in 1..l |-> m[i - 1]]
SeqRange(s) == {s[i] : i \in 1..Len(s)}
\* Running the destructor of every value of the sequence ds, in order.
DropAll(d, ds) == [id \in Ids |-> d[id] + Cardinality({i \in 1..Len(ds) : ds[i] = id})]
NoCall == [op |-> "none", index |-> 0, elem |-> Garbage, res |-> "ok", ret |-> Garbage,
           preLen |-> 0, preCap |-> 0, preMem |-> EmptyMem, preHeld |-> FALSE,
           preStart |-> 0, preEnd |-> 0,
           reads |-> {}, dropped |-> <<>>, view |-> <<>>, events |-> <<>>,
     alloc |-> "none"]
\* The record of a call: op(index, elem) ended with res ("ok", "some", "none", or the
\* name of the panic or abort), returned the bits ret, read the slots reads and ran
\* the destructors of dropped, in that order; pre* is the state the call started in.
\* view is what the call showed its caller (a slice, a size hint), events the
\* destructor runs and buffer releases of a teardown in the order they happened,
\* alloc what the allocator answered when the call asked it for a buffer ("none":
\* the call did not ask).
Call(op, index, elem, res, ret, reads, dropped) ==
    [op |-> op, index |-> index, elem |-> elem, res |-> res, ret |-> ret,
     preLen |-> len, preCap |-> cap, preMem |-> mem, preHeld |-> held,
     preStart |-> start, preEnd |-> end,
     reads |-> reads, dropped |-> dropped, view |-> <<>>, events |-> <<>>,
     alloc |-> "none"]

\* No push is the last call or the one before a pop.
NoPush == [elems |-> <<>>, len |-> 0, cap |-> 0]
\* allocate_new_id: NEXT_ID is 0, no caller has started, main is at the top of its loop.
IdThreads == 1..IdCallers
InitIdAlloc ==
    /\ NEXT_ID = 0
    /\ idPc = [t \in IdThreads |-> "start"]
    /\ current = [t \in IdThreads |-> 0]
    /\ retried = [t \in IdThreads |-> FALSE]
    /\ ids = {} /\ calls = 0
    /\ mainIter = 0 /\ mainPc = "loop"
\* get_data: DATA is null, no caller has started. Allocation a is the one made
\* by caller a.
Null == 0
LazyThreads == 1..LazyCallers
InitLazy ==
    /\ DATA = Null
    /\ lzPc = [t \in LazyThreads |-> "load"]
    /\ lzP = [t \in LazyThreads |-> Null]
    /\ lzE = [t \in LazyThreads |-> Null]
    /\ lzRet = [t \in LazyThreads |-> Null]
    /\ lzAllocd = {}
    /\ lzFreed = [a \in LazyThreads |-> 0]
    /\ lzStores = 0
\* mutex_lock: unlocked, the string empty, main about to spawn the first thread.
LockThreads == 1..LockThreadCount
MainThread == 0
InitLock ==
    /\ LOCKED = FALSE
    /\ DATA_MUTEX = 0
    /\ lkPc = [t \in LockThreads |-> "cas"]
    /\ lkMain = "spawn"
    /\ lkSpawned = 0
    /\ lkIn = {} /\ lkWon = {} /\ lkTouched = {}
\* SeqCst flags: both flags false, S empty, main about to spawn ta.
ScThreads == {"ta", "tb"}
InitSeqCst ==
    /\ A = FALSE /\ B = FALSE /\ S = <<>>
    /\ scPc = [t \in ScThreads |-> "idle"]
    /\ scSaw = [t \in ScThreads |-> FALSE]
    /\ scMain = "spawn_ta"
    /\ scIn = {} /\ scFound = {} /\ scOrder = <<>>
\* thread_condvar: the queue is empty, the Mutex free, the consumer is about to
\* lock it and the producer is at the top of its loop with i = 0.
NoItem == -1
InitCondvar ==
    /\ queue = <<>> /\ cvMutex = "free"
    /\ cvPc = "lock" /\ cvItem = NoItem
    /\ prPc = "produce" /\ prI = 0
    /\ consumed = <<>> /\ cvWakes = FALSE
\* The programs other than the container, not started.
InitExamples == InitIdAlloc /\ InitLazy /\ InitLock /\ InitSeqCst /\ InitCondvar

\* No insert is the last call or the one before a remove at its index (stage 0);
\* stage 1: the insert is the last call; stage 2: the remove after it is.
NoInsert == [stage |-> 0, elems |-> <<>>, len |-> 0, cap |-> 0, index |-> 0, elem |-> Garbage]
InitContainer ==
    /\ phase = "new"
    /\ checks \in BOOLEAN
    /\ elemSize \in 0..MaxElemSize
    /\ cap = 0 /\ len = 0 /\ mem = EmptyMem /\ held = FALSE
    /\ nextId = 1
    /\ drops = [id \in Ids |-> 0]
    /\ handed = {}
    /\ freed = 0 /\ vecDropRuns = 0
    /\ itCap = 0 /\ start = 0 /\ end = 0 /\ orig = <<>>
    /\ yieldF = <<>> /\ yieldB = <<>>
    /\ pushed = <<>> /\ npop = 0 /\ startLen = 0 /\ prePush = NoPush
    /\ preIns = NoInsert
    /\ abs = <<>>
    /\ last = NoCall
\* The container program: index is not called.
Init == InitContainer /\ arr = <<>> /\ InitExamples
\* The container is not used: the other programs never construct one.
NoContainer == InitContainer /\ checks /\ elemSize = 1 /\ arr = <<>>

\* ------------------------------------------------------- abstract sequence
\* What append, pop, insert at i and remove at i (counted from 0) do to a
\* mathematical sequence.
AbsAppend(s, v) == Append(s, v)
AbsPop(s) == SubSeq(s, 1, Len(s) - 1)
AbsInsert(s, i, v) == SubSeq(s, 1, i) \o <<v>> \o SubSeq(s, i + 1, Len(s))
AbsRemove(s, i) == SubSeq(s, 1, i) \o SubSeq(s, i + 2, Len(s))

\* ------------------------------------------------------------------- new
\* A constructor that takes every element size.
NewSizeOk_Any(sz) == TRUE
\* assert!(mem::size_of::<T>() != 0, "We're not ready to handle ZSTs")
NewSizeOk(sz) == sz # 0
\* Vec::new
New ==
    /\ phase = "new"
    /\ IF NewSizeOk(elemSize)
          THEN /\ phase' = "vec"
               /\ last' = Call("new", 0, Garbage, "ok", Garbage, {}, <<>>)
          ELSE /\ phase' = "rejected"
               /\ last' = Call("new", 0, Garbage, "panic_zst", Garbage, {}, <<>>)
    /\ cap' = 0 /\ len' = 0 /\ mem' = EmptyMem /\ held' = FALSE
    /\ abs' = <<>>
    /\ UNCHANGED <<checks, elemSize, nextId, drops, handed, freed, vecDropRuns>>
    /\ UNCHANGED iterVars /\ UNCHANGED runVars /\ UNCHANGED exampleVars
    /\ UNCHANGED <<arr, exampleVars>>

\* ------------------------------------------------------------------- grow
\* A growth by one slot at a time.
GrowNewCap_PlusOne(c) == c + 1
\* A growth whose first allocation has four slots.
GrowNewCap_FromFour(c) == IF c = 0 THEN 4 ELSE WrapMul(2, c)
\* Vec::grow, the new capacity: 1 for the first allocation, else 2 * cap (usize).
GrowNewCap(c) == IF c = 0 THEN 1 ELSE WrapMul(2, c)
\* Layout::array::<T>(n) is Ok: the byte size is computed with checked arithmetic.
LayoutArrayOk(n) == n * elemSize <= USizeMax
\* A size assertion against usize::MAX instead of isize::MAX.
AllocSizeOk_UpToUSize(n) == n * elemSize <= USizeMax
\* A grow without the size assertion.
AllocSizeOk_Unchecked(n) == TRUE
\* assert!(new_layout.size() <= isize::MAX as usize)
AllocSizeOk(n) == n * elemSize <= ISizeMax
\* A grow that takes the allocator's pointer without testing it for null.
GrowOutcome_IgnoresNull(c, allocOk) ==
    IF ~LayoutArrayOk(GrowNewCap(c)) THEN "layout_err"
    ELSE IF ~AllocSizeOk(GrowNewCap(c)) THEN "too_large"
    ELSE "ok"
\* How grow ends when the allocator answers allocOk (FALSE: it returned null).
GrowOutcome(c, allocOk) ==
    IF ~LayoutArrayOk(GrowNewCap(c)) THEN "layout_err"
    ELSE IF ~AllocSizeOk(GrowNewCap(c)) THEN "too_large"
    ELSE IF ~allocOk THEN "alloc_fail"
    ELSE "ok"
\* A growth that allocates a fresh buffer and copies nothing over.
GrownMem_Fresh(m, c) == [i \in 0..(GrowNewCap(c) - 1) |-> Garbage]
\* An allocation of one slot more than the old capacity, whatever the new capacity is.
GrownMem_OneMore(m, c) == [i \in 0..c |-> IF i < c THEN m[i] ELSE Garbage]
\* What alloc::alloc / alloc::realloc answers inside grow: they are reached only
\* past the unwrap and the assert!, and return null when allocOk is FALSE.
GrowAlloc(c, allocOk) ==
    IF LayoutArrayOk(GrowNewCap(c)) /\ AllocSizeOk(GrowNewCap(c))
       THEN (IF allocOk THEN "ok" ELSE "null")
       ELSE "none"
\* alloc / realloc: the old slots keep their bits, the new ones hold garbage.
GrownMem(m, c) == [i \in 0..(GrowNewCap(c) - 1) |-> IF i < c THEN m[i] ELSE Garbage]

\* --------------------------------------------------------------- run history
StartRun(v) ==
    /\ IF npop > 0 \/ pushed = <<>>
          THEN pushed' = <<v>> /\ npop' = 0 /\ startLen' = len
          ELSE pushed' = Append(pushed, v) /\ npop' = 0 /\ UNCHANGED startLen
    /\ prePush' = [elems |-> Elems(mem, len), len |-> len, cap |-> cap]
    /\ preIns' = NoInsert
ResetPushRun == pushed' = <<>> /\ npop' = 0 /\ startLen' = 0 /\ prePush' = NoPush
ResetRun == ResetPushRun /\ preIns' = NoInsert

\* ------------------------------------------------------------------- push
\* A push that writes the first slot.
PushSlot_First(l) == 0
\* The slot push writes: ptr.add(self.len).
PushSlot(l) == l
Push ==
    /\ phase = "vec"
    /\ nextId <= MaxElems
    /\ \E allocOk \in (IF len = cap THEN BOOLEAN ELSE {TRUE}) :
         LET v == nextId
             g == IF len = cap THEN GrowOutcome(cap, allocOk) ELSE "ok"
             c1 == IF len = cap THEN GrowNewCap(cap) ELSE cap
             m1 == IF len = cap THEN GrownMem(mem, cap) ELSE mem
             a == IF len = cap THEN GrowAlloc(cap, allocOk) ELSE "none"
         IN  CASE g = "ok" ->
                    /\ cap' = c1
                    /\ held' = (len = cap \/ held)
                    /\ mem' = [m1 EXCEPT ![PushSlot(len)] = v]
                    /\ len' = len + 1
                    /\ nextId' = nextId + 1
                    /\ last' = [Call("push", 0, v, "ok", Garbage, {}, <<>>) EXCEPT !.alloc = a]
                    /\ abs' = AbsAppend(abs, v)
                    /\ StartRun(v)
                    /\ UNCHANGED phase
               [] g = "alloc_fail" ->
                    \* handle_alloc_error: the process aborts, nothing is dropped
                    /\ phase' = "abort"
                    /\ last' = [Call("push", 0, v, g, Garbage, {}, <<>>) EXCEPT !.alloc = a]
                    /\ ResetRun
                    /\ UNCHANGED <<cap, len, mem, held, nextId, abs>>
               [] OTHER ->
                    \* a panic inside grow: unwinding drops elem, which never
                    \* entered the buffer
                    /\ last' = [Call("push", 0, v, g, Garbage, {}, <<v>>) EXCEPT !.alloc = a]
                    /\ ResetRun
                    /\ UNCHANGED <<phase, cap, len, mem, held, nextId, abs>>
    /\ UNCHANGED <<checks, elemSize, drops, handed, freed, vecDropRuns>>
    /\ UNCHANGED iterVars
    /\ UNCHANGED <<arr, exampleVars>>

\* -------------------------------------------------------------------- pop
\* A pop that takes the first element instead of the last.
PopSlot_Front(l) == 0
\* The slot pop reads, given len before the call: ptr.add(self.len) after self.len -= 1.
PopSlot(l) == l - 1
Pop ==
    /\ phase = "vec"
    /\ IF len = 0
          THEN /\ last' = Call("pop", 0, Garbage, "none", Garbage, {}, <<>>)
               /\ ResetRun
               /\ UNCHANGED <<len, handed, abs>>
          ELSE /\ len' = len - 1
               /\ abs' = AbsPop(abs)
               /\ handed' = handed \cup {mem[PopSlot(len)]}
               /\ last' = Call("pop", 0, Garbage, "some", mem[PopSlot(len)], {PopSlot(len)}, <<>>)
               /\ IF npop < Len(pushed)
                     THEN npop' = npop + 1 /\ UNCHANGED <<pushed, startLen, prePush, preIns>>
                     ELSE ResetRun
    /\ UNCHANGED <<phase, checks, elemSize, cap, mem, held, nextId, drops, freed, vecDropRuns>>
    /\ UNCHANGED iterVars
    /\ UNCHANGED <<arr, exampleVars>>

\* ----------------------------------------------------------------- insert
\* A bounds check that is off by one.
InsertIndexOk_OffByOne(index, l) == index <= l + 1
\* An insert that refuses the index equal to the length.
InsertIndexOk_Strict(index, l) == index < l
\* assert!(index <= self.len, "index out of bounds")
InsertIndexOk(index, l) == index <= l
\* A shift that starts at the beginning of the buffer whatever the index is.
ShiftRight_FromStart(m, index, l) ==
    [i \in DOMAIN m |-> IF i > 0 /\ i <= l THEN m[i - 1] ELSE m[i]]
\* A shift that copies forward slot by slot, as a non-overlapping copy would.
ShiftRight_Forward(m, index, l) ==
    [i \in DOMAIN m |-> IF i > index /\ i <= l THEN m[index] ELSE m[i]]
\* ptr::copy(ptr.add(index), ptr.add(index + 1), len - index): a memmove.
ShiftRight(m, index, l) ==
    [i \in DOMAIN m |-> IF i > index /\ i <= l THEN m[i - 1] ELSE m[i]]
\* The slots the shift of insert reads.
ShiftRightReads(index, l) == index..(l - 1)
Insert ==
    /\ phase = "vec"
    /\ nextId <= MaxElems
    /\ \E index \in 0..MaxIndex, allocOk \in (IF cap = len THEN BOOLEAN ELSE {TRUE}) :
         LET v == nextId
             g == IF ~InsertIndexOk(index, len) THEN "oob"
                  ELSE IF cap = len THEN GrowOutcome(cap, allocOk) ELSE "ok"
             c1 == IF cap = len THEN GrowNewCap(cap) ELSE cap
             m1 == IF cap = len THEN GrownMem(mem, cap) ELSE mem
             a == IF InsertIndexOk(index, len) /\ cap = len
                     THEN GrowAlloc(cap, allocOk) ELSE "none"
         IN  CASE g = "ok" ->
                    /\ cap' = c1
                    /\ held' = (cap = len \/ held)
                    /\ mem' = [ShiftRight(m1, index, len) EXCEPT ![index] = v]
                    /\ len' = len + 1
                    /\ nextId' = nextId + 1
                    /\ abs' = AbsInsert(abs, index, v)
                    /\ preIns' = [stage |-> 1, elems |-> Elems(mem, len), len |-> len,
                                  cap |-> cap, index |-> index, elem |-> v]
                    /\ last' = [Call("insert", index, v, "ok", Garbage,
                                     ShiftRightReads(index, len), <<>>)
                                  EXCEPT !.alloc = a]
                    /\ UNCHANGED phase
               [] g = "alloc_fail" ->
                    /\ phase' = "abort"
                    /\ last' = [Call("insert", index, v, g, Garbage, {}, <<>>) EXCEPT !.alloc = a]
                    /\ UNCHANGED <<cap, len, mem, held, nextId, abs>>
                    /\ preIns' = NoInsert
               [] OTHER ->
                    \* the assert or grow panicked: unwinding drops elem, which
                    \* never entered the buffer
                    /\ last' = [Call("insert", index, v, g, Garbage, {}, <<v>>) EXCEPT !.alloc = a]
                    /\ UNCHANGED <<phase, cap, len, mem, held, nextId, abs>>
                    /\ preIns' = NoInsert
    /\ ResetPushRun
    /\ UNCHANGED <<checks, elemSize, drops, handed, freed, vecDropRuns>>
    /\ UNCHANGED iterVars
    /\ UNCHANGED <<arr, exampleVars>>

\* ----------------------------------------------------------------- remove
\* assert!(index <= self.len, "index out of bounds")
RemoveIndexOk(index, l) == index <= l
\* A shift that moves one slot too few.
ShiftLeft_Short(m, index, count) ==
    [i \in DOMAIN m |-> IF i >= index /\ i + 1 < index + count THEN m[i + 1] ELSE m[i]]
\* A remove that closes no gap.
ShiftLeft_Stays(m, index, count) == m
\* ptr::copy(ptr.add(index + 1), ptr.add(index), count): a memmove.
ShiftLeft(m, index, count) ==
    [i \in DOMAIN m |-> IF i >= index /\ i < index + count THEN m[i + 1] ELSE m[i]]
\* The slots remove reads: the one it moves out, then those it shifts.
RemoveReads(index, count) == {index} \cup ((index + 1)..(index + count))
\* remove's steps in the order of the code.  self.len -= 1 and self.len - index are
\* usize subtractions: with overflow checks they panic on underflow, without they
\* wrap.  A read of slot index outside the allocation yields arbitrary bits; a
\* memmove that runs past the allocation ends the process.
Remove ==
    /\ phase = "vec"
    /\ \E index \in 0..MaxIndex :
       \E wild \in (IF index < cap THEN {Garbage} ELSE {b \in Bits : b < nextId}) :
         LET len1 == WrapSub(len, 1)
             result == IF index < cap THEN mem[index] ELSE wild
             count == WrapSub(len1, index)
         IN  /\ preIns' = IF preIns.stage = 1 /\ preIns.index = index
                           THEN [preIns EXCEPT !.stage = 2] ELSE NoInsert
             /\ CASE ~RemoveIndexOk(index, len) ->
                    /\ last' = Call("remove", index, Garbage, "oob", Garbage, {}, <<>>)
                    /\ UNCHANGED <<phase, len, mem, drops, handed, abs>>
               [] RemoveIndexOk(index, len) /\ len = 0 /\ checks ->
                    \* self.len -= 1 panics
                    /\ last' = Call("remove", index, Garbage, "panic_overflow", Garbage, {}, <<>>)
                    /\ UNCHANGED <<phase, len, mem, drops, handed, abs>>
               [] RemoveIndexOk(index, len) /\ ~(len = 0 /\ checks) /\ len1 < index /\ checks ->
                    \* self.len - index panics after the read: unwinding drops result
                    /\ len' = len1
                    /\ drops' = DropAll(drops, <<result>>)
                    /\ last' = Call("remove", index, Garbage, "panic_overflow", Garbage,
                                    {index}, <<result>>)
                    \* (a call outside the abstract operations: the sequence is taken anew)
                    /\ abs' = Elems(mem, len1)
                    /\ UNCHANGED <<phase, mem, handed>>
               [] RemoveIndexOk(index, len) /\ ~(len = 0 /\ checks) /\ ~(len1 < index /\ checks)
                  /\ index + 1 + count > cap ->
                    \* the memmove leaves the allocation
                    /\ len' = len1
                    /\ phase' = "abort"
                    /\ last' = Call("remove", index, Garbage, "crash", Garbage, {index}, <<>>)
                    /\ UNCHANGED <<mem, drops, handed, abs>>
               [] OTHER ->
                    /\ len' = len1
                    /\ mem' = ShiftLeft(mem, index, count)
                    /\ handed' = handed \cup {result}
                    /\ abs' = AbsRemove(abs, index)
                    /\ last' = Call("remove", index, Garbage, "some", result,
                                    RemoveReads(index, count), <<>>)
                    /\ UNCHANGED <<phase, drops>>
    /\ ResetPushRun
    /\ UNCHANGED <<checks, elemSize, cap, held, nextId, freed, vecDropRuns>>
    /\ UNCHANGED iterVars
    /\ UNCHANGED <<arr, exampleVars>>

\* --------------------------------------------------------- Deref / DerefMut
\* A view over the whole allocation: slice::from_raw_parts(ptr, cap).
SliceSlots_Cap(l) == 0..(cap - 1)
\* slice::from_raw_parts(ptr, len): the view covers slots [0, len).
SliceSlots(l) == 0..(l - 1)
\* The slice as its reader sees it: the bits of its slots, in slot order.
SliceView(m, slots) == [i \in 1..Cardinality(slots) |-> m[i - 1]]
Deref ==
    /\ phase = "vec"
    /\ last' = [Call("deref", 0, Garbage, "ok", Garbage, SliceSlots(len), <<>>)
                  EXCEPT !.view = SliceView(mem, SliceSlots(len))]
    /\ ResetRun
    /\ UNCHANGED <<phase, checks, elemSize, cap, len, mem, held, nextId, drops, handed,
                   freed, vecDropRuns>>
    /\ UNCHANGED iterVars
    /\ UNCHANGED abs
    /\ UNCHANGED <<arr, exampleVars>>

\* ------------------------------------------------------------ Drop for Vec
\* A teardown that drops the slots from index 0 upwards.
VecDropLog_Forward(m, l, c) == IF c # 0 THEN [i \in 1..l |-> m[i - 1]] ELSE <<>>
\* while let Some(_) = self.pop() {}: the values popped, each dropped at once.
VecDropLog(m, l, c) == IF c # 0 THEN [i \in 1..l |-> m[PopSlot(l + 1 - i)]] ELSE <<>>
\* A teardown that releases the buffer without asking whether there is one.
VecDropFrees_Always(c) == TRUE
\* alloc::dealloc runs inside if self.cap != 0.
VecDropFrees(c) == c # 0
\* The mark of alloc::dealloc in a teardown's events; no element bits equal it.
FreeEvent == -1
\* Drop for Vec in statement order: the pop loop, then alloc::dealloc.
VecDropEvents(m, l, c) ==
    VecDropLog(m, l, c) \o (IF VecDropFrees(c) THEN <<FreeEvent>> ELSE <<>>)
DropVec ==
    /\ phase = "vec"
    /\ phase' = "dropped_vec"
    /\ vecDropRuns' = vecDropRuns + 1
    /\ drops' = DropAll(drops, VecDropLog(mem, len, cap))
    /\ len' = IF cap # 0 THEN 0 ELSE len
    /\ freed' = IF VecDropFrees(cap) THEN freed + 1 ELSE freed
    /\ held' = IF VecDropFrees(cap) THEN FALSE ELSE held
    /\ last' = [Call("drop_vec", 0, Garbage, "ok", Garbage,
                     IF cap # 0 THEN SliceSlots(len) ELSE {}, VecDropLog(mem, len, cap))
                  EXCEPT !.events = VecDropEvents(mem, len, cap)]
    /\ ResetRun
    /\ UNCHANGED <<checks, elemSize, cap, mem, nextId, handed>>
    /\ UNCHANGED iterVars
    /\ UNCHANGED abs
    /\ UNCHANGED <<arr, exampleVars>>

\* --------------------------------------------------------------- into_iter
\* An into_iter that does not forget self.
ForgetSelf_Missing == FALSE
\* mem::forget(self): Drop for Vec does not run when into_iter returns.
ForgetSelf == TRUE
\* An end cursor placed at the end of the allocation.
IterEnd_Cap(c, l) == c
\* VecIntoIter.end: ptr when cap == 0, else ptr.add(len).
IterEnd(c, l) == IF c = 0 THEN 0 ELSE l
IntoIter ==
    /\ phase = "vec"
    /\ phase' = "iter"
    /\ itCap' = cap
    /\ start' = 0
    /\ end' = IterEnd(cap, len)
    /\ orig' = Elems(mem, len)
    /\ yieldF' = <<>> /\ yieldB' = <<>>
    /\ IF ForgetSelf
          THEN /\ last' = Call("into_iter", 0, Garbage, "ok", Garbage, {}, <<>>)
               /\ UNCHANGED <<len, held, drops, freed, vecDropRuns>>
          ELSE \* self goes out of scope at the end of into_iter
               /\ vecDropRuns' = vecDropRuns + 1
               /\ drops' = DropAll(drops, VecDropLog(mem, len, cap))
               /\ len' = IF cap # 0 THEN 0 ELSE len
               /\ freed' = IF VecDropFrees(cap) THEN freed + 1 ELSE freed
               /\ held' = IF VecDropFrees(cap) THEN FALSE ELSE held
               /\ last' = Call("into_iter", 0, Garbage, "ok", Garbage,
                               IF cap # 0 THEN SliceSlots(len) ELSE {},
                               VecDropLog(mem, len, cap))
    /\ ResetRun
    /\ UNCHANGED <<checks, elemSize, cap, mem, nextId, handed>>
    /\ UNCHANGED abs
    /\ UNCHANGED <<arr, exampleVars>>

\* ------------------------------------------------------ VecIntoIter::next
\* self.start == self.end
IterEmpty(s, e) == s = e
\* A next that reads the beginning of the buffer instead of start.
NextSlot_First(s) == 0
\* The slot next reads: ptr::read(self.start).
NextSlot(s) == s
\* A next that does not advance start.
NextStart_Stuck(s) == s
\* The cursor next leaves: self.start.offset(1).
NextStart(s) == s + 1
\* A next that advances start before it tests for emptiness.
IterNext_AdvancesOnNone ==
    /\ phase = "iter"
    /\ start' = NextStart(start)
    /\ IF IterEmpty(start, end)
          THEN /\ last' = Call("next", 0, Garbage, "none", Garbage, {}, <<>>)
               /\ UNCHANGED <<handed, yieldF>>
          ELSE /\ handed' = handed \cup {mem[NextSlot(start)]}
               /\ yieldF' = Append(yieldF, mem[NextSlot(start)])
               /\ last' = Call("next", 0, Garbage, "some", mem[NextSlot(start)],
                               {NextSlot(start)}, <<>>)
    /\ UNCHANGED <<phase, checks, elemSize, cap, len, mem, held, nextId, drops, freed,
                   vecDropRuns, itCap, end, orig, yieldB>>
    /\ UNCHANGED runVars
    /\ UNCHANGED abs
    /\ UNCHANGED <<arr, exampleVars>>
IterNext ==
    /\ phase = "iter"
    /\ IF IterEmpty(start, end)
          THEN /\ last' = Call("next", 0, Garbage, "none", Garbage, {}, <<>>)
               /\ UNCHANGED <<start, handed, yieldF>>
          ELSE /\ start' = NextStart(start)
               /\ handed' = handed \cup {mem[NextSlot(start)]}
               /\ yieldF' = Append(yieldF, mem[NextSlot(start)])
               /\ last' = Call("next", 0, Garbage, "some", mem[NextSlot(start)],
                               {NextSlot(start)}, <<>>)
    /\ UNCHANGED <<phase, checks, elemSize, cap, len, mem, held, nextId, drops, freed,
                   vecDropRuns, itCap, end, orig, yieldB>>
    /\ UNCHANGED runVars
    /\ UNCHANGED abs
    /\ UNCHANGED <<arr, exampleVars>>

\* ------------------------------------------------- VecIntoIter::next_back
\* self.end = self.end.offset(-1), and that is the slot next_back reads.
NextBackEnd(e) == e - 1
IterNextBack ==
    /\ phase = "iter"
    /\ IF IterEmpty(start, end)
          THEN /\ last' = Call("next_back", 0, Garbage, "none", Garbage, {}, <<>>)
               /\ UNCHANGED <<end, handed, yieldB>>
          ELSE /\ end' = NextBackEnd(end)
               /\ handed' = handed \cup {mem[NextBackEnd(end)]}
               /\ yieldB' = Append(yieldB, mem[NextBackEnd(end)])
               /\ last' = Call("next_back", 0, Garbage, "some", mem[NextBackEnd(end)],
                               {NextBackEnd(end)}, <<>>)
    /\ UNCHANGED <<phase, checks, elemSize, cap, len, mem, held, nextId, drops, freed,
                   vecDropRuns, itCap, start, orig, yieldF>>
    /\ UNCHANGED runVars
    /\ UNCHANGED abs
    /\ UNCHANGED <<arr, exampleVars>>

\* ------------------------------------------------- VecIntoIter::size_hint
\* A size hint that forgets to divide the byte distance by the element size.
SizeHintLen_Bytes(s, e) == WrapSub(e * elemSize, s * elemSize)
\* (self.end as usize - self.start as usize) / mem::size_of::<T>()
SizeHintLen(s, e) == WrapSub(e * elemSize, s * elemSize) \div elemSize
\* (len, Some(len)): the lower bound and the upper bound, which is present.
SizeHintPair(n) == <<n, n>>
SizeHint ==
    /\ phase = "iter"
    /\ last' = [Call("size_hint", 0, Garbage, "ok", SizeHintLen(start, end), {}, <<>>)
                  EXCEPT !.view = SizeHintPair(SizeHintLen(start, end))]
    /\ UNCHANGED <<phase, checks, elemSize, cap, len, mem, held, nextId, drops, handed,
                   freed, vecDropRuns>>
    /\ UNCHANGED iterVars /\ UNCHANGED runVars /\ UNCHANGED exampleVars
    /\ UNCHANGED abs
    /\ UNCHANGED <<arr, exampleVars>>

\* ----------------------------------------------------- Drop for VecIntoIter
\* A teardown that drops from the beginning of the buffer instead of from start.
IterDropLog_FromBuf(m, s, e, c) == IF c # 0 THEN [i \in 1..e |-> m[i - 1]] ELSE <<>>
\* for _ in &mut *self {}: next() until it returns None, each value dropped at once.
IterDropLog(m, s, e, c) == IF c # 0 THEN [i \in 1..(e - s) |-> m[NextSlot(s + i - 1)]] ELSE <<>>
\* A teardown that never releases the buffer.
IterDropFrees_Never(c) == FALSE
\* alloc::dealloc runs inside if self.cap != 0.
IterDropFrees(c) == c # 0
DropIter ==
    /\ phase = "iter"
    /\ phase' = "dropped_iter"
    /\ drops' = DropAll(drops, IterDropLog(mem, start, end, itCap))
    /\ start' = IF itCap # 0 THEN end ELSE start
    /\ freed' = IF IterDropFrees(itCap) THEN freed + 1 ELSE freed
    /\ held' = IF IterDropFrees(itCap) THEN FALSE ELSE held
    /\ last' = Call("drop_iter", 0, Garbage, "ok", Garbage,
                    IF itCap # 0 THEN start..(end - 1) ELSE {},
                    IterDropLog(mem, start, end, itCap))
    /\ UNCHANGED <<checks, elemSize, cap, len, mem, nextId, handed, vecDropRuns,
                   itCap, end, orig, yieldF, yieldB>>
    /\ UNCHANGED runVars
    /\ UNCHANGED abs
    /\ UNCHANGED <<arr, exampleVars>>

Next ==
    \/ New \/ Push \/ Pop \/ Insert \/ Remove \/ Deref \/ DropVec
    \/ IntoIter \/ IterNext \/ IterNextBack \/ SizeHint \/ DropIter
Spec == Init /\ [][Next]_vars

\* ------------------------------------------------- index (src/src/unsafe.rs)
\* The slices index is called on.
IndexSlices == {[i \in 1..n |-> i] : n \in 0..MaxSliceLen}
\* An index that lets idx == arr.len() through.
IndexGuard_Inclusive(idx, n) == idx <= n
\* if idx < arr.len()
IndexGuard(idx, n) == idx < n
\* <[T]>::get_unchecked(arr, idx): the element at idx, and undefined behaviour
\* (any bits) for an idx outside the slice.
GetUnchecked(a, idx) == IF idx < Len(a) THEN {a[idx + 1]} ELSE 0..MaxSliceLen
Index ==
    /\ \E idx \in 0..MaxSliceIdx :
         IF IndexGuard(idx, Len(arr))
            THEN \E r \in GetUnchecked(arr, idx) :
                    last' = Call("index", idx, Garbage, "some", r, {idx}, <<>>)
            ELSE last' = Call("index", idx, Garbage, "none", Garbage, {}, <<>>)
    /\ UNCHANGED <<phase, checks, elemSize, cap, len, mem, held, nextId, drops, handed,
                   freed, vecDropRuns, abs, arr>>
    /\ UNCHANGED iterVars /\ UNCHANGED runVars /\ UNCHANGED exampleVars
InitIndex == InitContainer /\ arr \in IndexSlices /\ InitExamples
NextIndex == Index
SpecIndex == InitIndex /\ [][NextIndex]_vars

\* ------- allocate_new_id (src/src/atomics_locks/atomics_compare_and_exchange_id_alloc.rs)
containerVars == <<phase, checks, elemSize, cap, len, mem, held, nextId, drops, handed, freed,
                   vecDropRuns, iterVars, runVars, abs, arr, last>>
\* An assert that lets the limit itself through.
IdInRange_Inclusive(c) == c <= IdLimit
\* assert!(current < 100, "ID overflowed")
IdInRange(c) == c < IdLimit
\* An exchange that stores whatever the variable holds.
CasSucceeds_Blind(actual, expected) == TRUE
\* compare_exchange(_weak): the store happens only if the variable holds `expected`
CasSucceeds(actual, expected) == actual = expected
\* current + 1 on a u8
IdSucc(c) == (c + 1) % U8Mod
\* The assert at the top of the loop, on the value just observed.
IdAfterObserve(c) == IF IdInRange(c) THEN "cas" ELSE "panicked"
\* What a Relaxed load by caller t may return: NEXT_ID only counts up, so its
\* earlier values are the smaller numbers; a caller never reads an older value
\* than one it has read already.
Observable(t) == {v \in 0..NEXT_ID : v >= current[t] /\ v + MaxStale >= NEXT_ID}
\* let mut current = NEXT_ID.load(Relaxed), then the first assert
IdLoad(t) ==
    /\ idPc[t] = "start"
    /\ \E x \in Observable(t) :
         /\ current' = [current EXCEPT ![t] = x]
         /\ idPc' = [idPc EXCEPT ![t] = IdAfterObserve(x)]
    /\ UNCHANGED <<NEXT_ID, retried, ids, calls, mainIter, mainPc, containerVars, lazyVars, lockVars, scVars, cvVars>>
\* NEXT_ID.compare_exchange_weak(current, current + 1, ..): it succeeds only on
\* the latest value and may fail although that matches; Ok(val) returns val,
\* Err(x) is a Relaxed load and retries with x after the assert.
IdCas(t) ==
    /\ idPc[t] = "cas"
    /\ \E fails \in BOOLEAN, x \in Observable(t) :
         IF CasSucceeds(NEXT_ID, current[t]) /\ ~fails
         THEN /\ NEXT_ID' = IdSucc(current[t])
              /\ idPc' = [idPc EXCEPT ![t] = "done"]
              /\ current' = [current EXCEPT ![t] = 0]  \* the local is gone at return
              /\ calls' = calls + 1
              /\ ids' = ids \cup {NEXT_ID}
              /\ UNCHANGED retried
         ELSE /\ current' = [current EXCEPT ![t] = x]
              /\ idPc' = [idPc EXCEPT ![t] = IdAfterObserve(x)]
              /\ retried' = [retried EXCEPT ![t] = TRUE]
              /\ UNCHANGED <<NEXT_ID, ids, calls>>
    /\ UNCHANGED <<mainIter, mainPc, containerVars, lazyVars, lockVars, scVars, cvVars>>
\* One iteration of main's loop: spawn(|| allocate_new_id()).join().unwrap(). The
\* thread is joined before the next is spawned, so its call runs with no other
\* call of main's under way; a panic in it makes unwrap panic in main.
MainCall ==
    /\ mainPc = "loop" /\ mainIter < Spawns
    /\ \A t \in IdThreads : idPc[t] # "cas"
    /\ IF IdInRange(NEXT_ID)
       THEN /\ NEXT_ID' = IdSucc(NEXT_ID)
            /\ calls' = calls + 1
            /\ ids' = ids \cup {NEXT_ID}
            /\ mainIter' = mainIter + 1
            /\ UNCHANGED mainPc
       ELSE /\ mainPc' = "panicked"
            /\ UNCHANGED <<NEXT_ID, calls, ids, mainIter>>
    /\ UNCHANGED <<idPc, current, retried, containerVars, lazyVars, lockVars, scVars, cvVars>>
InitIdAllocOnly == NoContainer /\ InitExamples
NextIdAlloc ==
    \/ \E t \in IdThreads : IdLoad(t)
    \/ \E t \in IdThreads : IdCas(t)
    \/ MainCall
SpecIdAlloc == InitIdAllocOnly /\ [][NextIdAlloc]_vars

\* ------- get_data (src/src/atomics_locks/lazy_initialisation_with_indirection_rel_acq.rs)
\* let mut p = DATA.load(Acquire): a caller that has not synchronised with the
\* store may still read the initial null.
LazyLoad(t) ==
    /\ lzPc[t] = "load"
    /\ \E x \in {DATA, Null} :
         /\ lzP' = [lzP EXCEPT ![t] = x]
         /\ lzPc' = [lzPc EXCEPT ![t] = IF x = Null THEN "alloc" ELSE "ret"]
    /\ UNCHANGED <<DATA, lzE, lzRet, lzAllocd, lzFreed, lzStores, idVars, containerVars, lockVars, scVars, cvVars>>
\* p = Box::into_raw(Box::new(Data::default()))
LazyAlloc(t) ==
    /\ lzPc[t] = "alloc"
    /\ lzP' = [lzP EXCEPT ![t] = t]
    /\ lzAllocd' = lzAllocd \cup {t}
    /\ lzPc' = [lzPc EXCEPT ![t] = "cas"]
    /\ UNCHANGED <<DATA, lzE, lzRet, lzFreed, lzStores, idVars, containerVars, lockVars, scVars, cvVars>>
\* DATA.compare_exchange(null_mut(), p, Release, Acquire): no spurious failure;
\* Err(e) carries the pointer found.
LazyCas(t) ==
    /\ lzPc[t] = "cas"
    /\ IF CasSucceeds(DATA, Null)
       THEN /\ DATA' = lzP[t]
            /\ lzStores' = lzStores + 1
            /\ lzPc' = [lzPc EXCEPT ![t] = "ret"]
            /\ UNCHANGED lzE
       ELSE /\ lzE' = [lzE EXCEPT ![t] = DATA]
            /\ lzPc' = [lzPc EXCEPT ![t] = "free"]
            /\ UNCHANGED <<DATA, lzStores>>
    /\ UNCHANGED <<lzP, lzRet, lzAllocd, lzFreed, idVars, containerVars, lockVars, scVars, cvVars>>
\* A loser that frees the pointer it was handed instead of its own.
FreedOnFailure_Other(own, e) == e
\* drop(unsafe { Box::from_raw(p) })
FreedOnFailure(own, e) == own
\* The Err arm: free, then p = e
LazyFree(t) ==
    /\ lzPc[t] = "free"
    /\ lzFreed' = [lzFreed EXCEPT ![FreedOnFailure(lzP[t], lzE[t])] = @ + 1]
    /\ lzP' = [lzP EXCEPT ![t] = lzE[t]]
    /\ lzPc' = [lzPc EXCEPT ![t] = "ret"]
    /\ UNCHANGED <<DATA, lzE, lzRet, lzAllocd, lzStores, idVars, containerVars, lockVars, scVars, cvVars>>
\* unsafe { &*p }
LazyReturn(t) ==
    /\ lzPc[t] = "ret"
    /\ lzRet' = [lzRet EXCEPT ![t] = lzP[t]]
    /\ lzPc' = [lzPc EXCEPT ![t] = "done"]
    /\ UNCHANGED <<DATA, lzP, lzE, lzAllocd, lzFreed, lzStores, idVars, containerVars, lockVars, scVars, cvVars>>
InitLazyOnly == NoContainer /\ InitExamples
NextLazy ==
    \/ \E t \in LazyThreads : LazyLoad(t)
    \/ \E t \in LazyThreads : LazyAlloc(t)
    \/ \E t \in LazyThreads : LazyCas(t)
    \/ \E t \in LazyThreads : LazyFree(t)
    \/ \E t \in LazyThreads : LazyReturn(t)
SpecLazy == InitLazyOnly /\ [][NextLazy]_vars

\* ------- mutex_lock (src/src/atomics_locks/release_acquire_ordering.rs)
\* s.spawn(..) in the loop of the scope
LockSpawn ==
    /\ lkMain = "spawn" /\ lkSpawned < LockThreadCount
    /\ lkSpawned' = lkSpawned + 1
    /\ UNCHANGED <<LOCKED, DATA_MUTEX, lkPc, lkMain, lkIn, lkWon, lkTouched>>
    /\ UNCHANGED <<idVars, lazyVars, containerVars, scVars, cvVars>>
\* A lock that every thread gets.
TryLock_Always(locked) == TRUE
\* LOCKED.compare_exchange(false, true, Acquire, Relaxed).is_ok()
TryLock(locked) == CasSucceeds(locked, FALSE)
\* The thread's compare_exchange; on Err the closure ends.
LockCas(t) ==
    /\ t <= lkSpawned /\ lkPc[t] = "cas"
    /\ IF TryLock(LOCKED)
       THEN /\ LOCKED' = TRUE
            /\ lkWon' = lkWon \cup {t}
            /\ lkPc' = [lkPc EXCEPT ![t] = "push"]
       ELSE /\ lkPc' = [lkPc EXCEPT ![t] = "done"]
            /\ UNCHANGED <<LOCKED, lkWon>>
    /\ UNCHANGED <<DATA_MUTEX, lkMain, lkSpawned, lkIn, lkTouched>>
    /\ UNCHANGED <<idVars, lazyVars, containerVars, scVars, cvVars>>
\* DATA_MUTEX.push_str("!") begins: a plain access to the static mut
LockPushBegin(t) ==
    /\ lkPc[t] = "push"
    /\ lkIn' = lkIn \cup {t}
    /\ lkTouched' = lkTouched \cup {t}
    /\ lkPc' = [lkPc EXCEPT ![t] = "pushing"]
    /\ UNCHANGED <<LOCKED, DATA_MUTEX, lkMain, lkSpawned, lkWon>>
    /\ UNCHANGED <<idVars, lazyVars, containerVars, scVars, cvVars>>
\* DATA_MUTEX.push_str("!") ends
LockPushEnd(t) ==
    /\ lkPc[t] = "pushing"
    /\ DATA_MUTEX' = DATA_MUTEX + 1
    /\ lkIn' = lkIn \ {t}
    /\ lkPc' = [lkPc EXCEPT ![t] = "store"]
    /\ UNCHANGED <<LOCKED, lkMain, lkSpawned, lkWon, lkTouched>>
    /\ UNCHANGED <<idVars, lazyVars, containerVars, scVars, cvVars>>
\* LOCKED.store(false, Release)
LockStore(t) ==
    /\ lkPc[t] = "store"
    /\ LOCKED' = FALSE
    /\ lkPc' = [lkPc EXCEPT ![t] = "done"]
    /\ UNCHANGED <<DATA_MUTEX, lkMain, lkSpawned, lkIn, lkWon, lkTouched>>
    /\ UNCHANGED <<idVars, lazyVars, containerVars, scVars, cvVars>>
\* thread::scope returns once every spawned thread has finished; main then
\* starts reading DATA_MUTEX for println!
LockMainRead ==
    /\ lkMain = "spawn" /\ lkSpawned = LockThreadCount
    /\ \A t \in LockThreads : lkPc[t] = "done"
    /\ lkMain' = "print"
    /\ lkIn' = lkIn \cup {MainThread}
    /\ UNCHANGED <<LOCKED, DATA_MUTEX, lkPc, lkSpawned, lkWon, lkTouched>>
    /\ UNCHANGED <<idVars, lazyVars, containerVars, scVars, cvVars>>
\* println!("{}", DATA_MUTEX) is done
LockMainDone ==
    /\ lkMain = "print"
    /\ lkMain' = "done"
    /\ lkIn' = lkIn \ {MainThread}
    /\ UNCHANGED <<LOCKED, DATA_MUTEX, lkPc, lkSpawned, lkWon, lkTouched>>
    /\ UNCHANGED <<idVars, lazyVars, containerVars, scVars, cvVars>>
InitLockOnly == NoContainer /\ InitExamples
NextLock ==
    \/ LockSpawn
    \/ \E t \in LockThreads : LockCas(t)
    \/ \E t \in LockThreads : LockPushBegin(t)
    \/ \E t \in LockThreads : LockPushEnd(t)
    \/ \E t \in LockThreads : LockStore(t)
    \/ LockMainRead
    \/ LockMainDone
SpecLock == InitLockOnly /\ [][NextLock]_vars

\* ------- SeqCst flags (src/src/atomics_locks/sequentially_consistent_ordering.rs)
otherThanSc == <<idVars, lazyVars, lockVars, containerVars, cvVars>>
\* The other thread's flag, and the character a thread appends
ScOtherFlag(t) == IF t = "ta" THEN B ELSE A
ScChar(t) == IF t = "ta" THEN "!" ELSE "?"
\* let ta = thread::spawn(..); let tb = thread::spawn(..)
ScSpawn(t) ==
    /\ scMain = (IF t = "ta" THEN "spawn_ta" ELSE "spawn_tb")
    /\ scMain' = (IF t = "ta" THEN "spawn_tb" ELSE "join_ta")
    /\ scPc' = [scPc EXCEPT ![t] = "store"]
    /\ UNCHANGED <<A, B, S, scSaw, scIn, scFound, scOrder, otherThanSc>>
\* A.store(true, SeqCst) in ta, B.store(true, SeqCst) in tb
ScStore(t) ==
    /\ scPc[t] = "store"
    /\ IF t = "ta" THEN A' = TRUE /\ UNCHANGED B ELSE B' = TRUE /\ UNCHANGED A
    /\ scPc' = [scPc EXCEPT ![t] = "load"]
    /\ scOrder' = Append(scOrder, <<t, "store">>)
    /\ UNCHANGED <<S, scSaw, scMain, scIn, scFound, otherThanSc>>
\* A load that may still return the initial value.
ScLoaded_Stale(flag) == {flag, FALSE}
\* load(SeqCst): all SeqCst operations are in one total order, so the load
\* returns the flag's latest value
ScLoaded(flag) == {flag}
\* B.load(SeqCst) in ta, A.load(SeqCst) in tb
ScLoad(t) ==
    /\ scPc[t] = "load"
    /\ \E x \in ScLoaded(ScOtherFlag(t)) : scSaw' = [scSaw EXCEPT ![t] = x]
    /\ scPc' = [scPc EXCEPT ![t] = "test"]
    /\ scOrder' = Append(scOrder, <<t, "load">>)
    /\ UNCHANGED <<A, B, S, scMain, scIn, scFound, otherThanSc>>
\* if !loaded { .. }: the thread enters the block, or the closure ends
ScTest(t) ==
    /\ scPc[t] = "test"
    /\ IF ~scSaw[t]
       THEN /\ scFound' = scFound \cup {t}
            /\ scPc' = [scPc EXCEPT ![t] = "push"]
       ELSE /\ scPc' = [scPc EXCEPT ![t] = "done"]
            /\ UNCHANGED scFound
    /\ UNCHANGED <<A, B, S, scSaw, scMain, scIn, scOrder, otherThanSc>>
\* S.push_str("!") / S.push_str("?") begins: a plain access to the static mut
ScPushBegin(t) ==
    /\ scPc[t] = "push"
    /\ scIn' = scIn \cup {t}
    /\ scPc' = [scPc EXCEPT ![t] = "pushing"]
    /\ UNCHANGED <<A, B, S, scSaw, scMain, scFound, scOrder, otherThanSc>>
\* S.push_str("!") / S.push_str("?") ends
ScPush(t) ==
    /\ scPc[t] = "pushing"
    /\ S' = Append(S, ScChar(t))
    /\ scIn' = scIn \ {t}
    /\ scPc' = [scPc EXCEPT ![t] = "done"]
    /\ UNCHANGED <<A, B, scSaw, scMain, scFound, scOrder, otherThanSc>>
\* ta.join().unwrap(); tb.join().unwrap()
ScJoin(t) ==
    /\ scMain = (IF t = "ta" THEN "join_ta" ELSE "join_tb")
    /\ scPc[t] = "done"
    /\ scMain' = (IF t = "ta" THEN "join_tb" ELSE "print")
    /\ UNCHANGED <<A, B, S, scPc, scSaw, scIn, scFound, scOrder, otherThanSc>>
\* println!("{}", unsafe { &S }) begins
ScPrintBegin ==
    /\ scMain = "print"
    /\ scMain' = "printing"
    /\ scIn' = scIn \cup {"main"}
    /\ UNCHANGED <<A, B, S, scPc, scSaw, scFound, scOrder, otherThanSc>>
\* println! is done and main returns
ScPrintEnd ==
    /\ scMain = "printing"
    /\ scMain' = "done"
    /\ scIn' = scIn \ {"main"}
    /\ UNCHANGED <<A, B, S, scPc, scSaw, scFound, scOrder, otherThanSc>>
InitSeqCstOnly == NoContainer /\ InitExamples
NextSeqCst ==
    \/ \E t \in ScThreads : ScSpawn(t)
    \/ \E t \in ScThreads : ScStore(t)
    \/ \E t \in ScThreads : ScLoad(t)
    \/ \E t \in ScThreads : ScTest(t)
    \/ \E t \in ScThreads : ScPushBegin(t)
    \/ \E t \in ScThreads : ScPush(t)
    \/ \E t \in ScThreads : ScJoin(t)
    \/ ScPrintBegin
    \/ ScPrintEnd
SpecSeqCst == InitSeqCstOnly /\ [][NextSeqCst]_vars

\* ------- thread_condvar (src/src/atomics_locks/threads.rs)
otherThanCv == <<idVars, lazyVars, lockVars, scVars, containerVars>>
\* let mut q = queue.lock().unwrap()
CvLock ==
    /\ cvPc = "lock" /\ cvMutex = "free"
    /\ cvMutex' = "consumer"
    /\ cvPc' = "check"
    /\ UNCHANGED <<queue, cvItem, prPc, prI, consumed, cvWakes, otherThanCv>>
\* if let Some(item) = q.pop_front() { break item } else { q = not_empty.wait(q) }:
\* wait() releases the Mutex and starts waiting in one step
CvCheck ==
    /\ cvPc = "check"
    /\ IF queue # <<>>
       THEN /\ cvItem' = Head(queue)
            /\ queue' = Tail(queue)
            /\ cvPc' = "drop"
            /\ UNCHANGED cvMutex
       ELSE /\ cvMutex' = "free"
            /\ cvPc' = "waiting"
            /\ UNCHANGED <<queue, cvItem>>
    /\ UNCHANGED <<prPc, prI, consumed, cvWakes, otherThanCv>>
\* wait() returns: the woken consumer has the Mutex again
CvRelock ==
    /\ cvPc = "woken" /\ cvMutex = "free"
    /\ cvMutex' = "consumer"
    /\ cvPc' = "check"
    /\ UNCHANGED <<queue, cvItem, prPc, prI, consumed, cvWakes, otherThanCv>>
\* drop(q)
CvDrop ==
    /\ cvPc = "drop"
    /\ cvMutex' = "free"
    /\ cvPc' = "consume"
    /\ UNCHANGED <<queue, cvItem, prPc, prI, consumed, cvWakes, otherThanCv>>
\* println!("Consume: {item:?}") and the next turn of the outer loop
CvConsume ==
    /\ cvPc = "consume"
    /\ consumed' = Append(consumed, cvItem)
    /\ cvItem' = NoItem
    /\ cvPc' = "lock"
    /\ UNCHANGED <<queue, cvMutex, prPc, prI, cvWakes, otherThanCv>>
\* Condvar::wait may return without any notification
CvSpuriousWake ==
    /\ cvPc = "waiting"
    /\ cvPc' = "woken"
    /\ UNCHANGED <<queue, cvMutex, cvItem, prPc, prI, consumed, cvWakes, otherThanCv>>
\* queue.lock().unwrap() of the push statement; i stops at MaxItems
PrLock ==
    /\ prPc = "produce" /\ prI < MaxItems /\ cvMutex = "free"
    /\ cvMutex' = "producer"
    /\ prPc' = "push"
    /\ UNCHANGED <<queue, cvPc, cvItem, prI, consumed, cvWakes, otherThanCv>>
\* .push_back(i); the guard is dropped at the end of the statement
PrPush ==
    /\ prPc = "push"
    /\ queue' = Append(queue, prI)
    /\ cvMutex' = "free"
    /\ prPc' = "notify"
    /\ UNCHANGED <<cvPc, cvItem, prI, consumed, cvWakes, otherThanCv>>
\* A notification that wakes nobody.
NotifyOne_Lost(pc) == pc
\* notify_one: a waiting thread is woken, otherwise nothing happens
NotifyOne(pc) == IF pc = "waiting" THEN "woken" ELSE pc
\* not_empty.notify_one()
PrNotify ==
    /\ prPc = "notify"
    /\ cvPc' = NotifyOne(cvPc)
    /\ cvWakes' = (cvWakes \/ cvPc' # cvPc)
    /\ prPc' = "sleep"
    /\ UNCHANGED <<queue, cvMutex, cvItem, prI, consumed, otherThanCv>>
\* thread::sleep(..) and the next i
PrSleep ==
    /\ prPc = "sleep"
    /\ prI' = prI + 1
    /\ prPc' = "produce"
    /\ UNCHANGED <<queue, cvMutex, cvPc, cvItem, consumed, cvWakes, otherThanCv>>
Consumer == CvLock \/ CvCheck \/ CvRelock \/ CvDrop \/ CvConsume
Producer == PrLock \/ PrPush \/ PrNotify \/ PrSleep
InitCondvarOnly == NoContainer /\ InitExamples
NextCondvar ==
    \/ CvLock \/ CvCheck \/ CvRelock \/ CvDrop \/ CvConsume
    \/ CvSpuriousWake
    \/ PrLock \/ PrPush \/ PrNotify \/ PrSleep
SpecCondvar == InitCondvarOnly /\ [][NextCondvar]_vars
\* Both threads keep running whenever they can; a spurious wakeup is never owed.
FairSpecCondvar == SpecCondvar /\ WF_vars(Consumer) /\ WF_vars(Producer)

\* ================================================================= claims
VecOps == {"new", "push", "pop", "insert", "remove", "deref", "drop_vec", "into_iter"}
\* How often id occurs in the sequence s.
Count(s, id) == Cardinality({i \in 1..Len(s) : s[i] = id})
\* The elements of the container before the last call.
PreElems == Elems(last.preMem, last.preLen)
\* The elements the iterator has not yielded yet.
Remaining == SubSeq(orig, Len(yieldF) + 1, Len(orig) - Len(yieldB))

\* C1: in every state reached by construct, append, pop, insert and remove calls with
\* any index arguments, failing calls included, 0 <= length <= capacity.
C1_LenWithinCap == 0 <= len /\ len <= cap

\* C2: no container operation reads a slot that is not initialised: every slot the
\* last call read lies in [0, length) of the state the call started in.
C2_ReadsInitialised ==
    last.op \in VecOps => \A i \in last.reads : 0 <= i /\ i < last.preLen

\* C3: remove(index) with index = length fails with an out-of-bounds error and
\* leaves length, capacity and the element sequence unchanged.
C3_RemoveAtLenRejected ==
    (last.op = "remove" /\ last.index = last.preLen) =>
        /\ last.res = "oob"
        /\ len = last.preLen
        /\ cap = last.preCap
        /\ Elems(mem, len) = PreElems

\* C4: insert(index, v) and remove(index) with index > length fail with an
\* out-of-bounds error before any mutation: length, capacity, the allocation and
\* the buffer are as before the call, and a full container has not grown.
C4_OutOfBoundsRejected ==
    (last.op \in {"insert", "remove"} /\ last.index > last.preLen) =>
        /\ last.res = "oob"
        /\ phase = "vec"
        /\ len = last.preLen
        /\ cap = last.preCap
        /\ mem = last.preMem
        /\ held = last.preHeld
C4_Witness ==
    /\ last.op = "insert" /\ last.index > last.preLen
    /\ last.preLen = last.preCap /\ last.preCap >= 2

\* C5: teardown of a container drops each element that is live at that moment
\* (slots [0, length)) exactly once, drops no element already handed to the caller
\* by pop or remove, and releases the buffer exactly once iff capacity # 0.
C5_VecTeardown ==
    phase = "dropped_vec" =>
        /\ last.op = "drop_vec"
        /\ Len(last.dropped) = last.preLen
        /\ \A i \in 1..last.preLen : Count(last.dropped, PreElems[i]) = 1
        /\ SeqRange(last.dropped) \cap handed = {}
        /\ freed = (IF last.preCap # 0 THEN 1 ELSE 0)
        /\ held = FALSE
        /\ vecDropRuns = 1
C5_Witness ==
    /\ phase = "dropped_vec" /\ last.preLen >= 2 /\ last.preLen < last.preCap
    /\ handed # {} /\ freed = 1

\* C6: into_iter transfers the buffer: Drop for Vec never runs afterwards, and over
\* the life container -> iterator -> iterator teardown, with any next / next_back
\* calls in between, the buffer is released exactly once when capacity # 0 and
\* never when capacity = 0.
C6_BufferTransferred ==
    /\ phase \in {"iter", "dropped_iter"} => vecDropRuns = 0
    /\ phase = "iter" => (freed = 0 /\ held = (itCap # 0))
    /\ phase = "dropped_iter" => (freed = (IF itCap # 0 THEN 1 ELSE 0) /\ held = FALSE)
C6_Witness ==
    /\ phase = "dropped_iter" /\ itCap # 0 /\ freed = 1
    /\ yieldF # <<>> /\ yieldB # <<>>

\* C7: teardown of the iterator after any k next() and m next_back() calls drops
\* exactly the elements still in [start, end), each once, never one that was
\* yielded, and releases the buffer iff the transferred capacity is nonzero.
C7_IterTeardown ==
    phase = "dropped_iter" =>
        /\ last.op = "drop_iter"
        /\ last.reads = last.preStart..(last.preEnd - 1)
        /\ Len(last.dropped) = Len(Remaining)
        /\ \A i \in 1..Len(Remaining) : Count(last.dropped, Remaining[i]) = 1
        /\ SeqRange(last.dropped) \cap (SeqRange(yieldF) \cup SeqRange(yieldB)) = {}
        /\ freed = (IF itCap # 0 THEN 1 ELSE 0)
C7_Witness ==
    /\ phase = "dropped_iter"
    /\ Len(yieldF) >= 1 /\ Len(yieldB) >= 1 /\ Len(last.dropped) >= 1

\* C8: after any next() and next_back() calls start <= end, and the slots
\* [start, end) hold exactly the elements of the original container that have not
\* been yielded.
C8_IterWindow ==
    phase = "iter" =>
        /\ 0 <= start /\ start <= end /\ end <= Len(orig)
        /\ [i \in 1..(end - start) |-> mem[start + i - 1]] = SubSeq(orig, start + 1, end)
        /\ {mem[i] : i \in start..(end - 1)}
             = SeqRange(orig) \ (SeqRange(yieldF) \cup SeqRange(yieldB))
        /\ Len(yieldF) + Len(yieldB) + (end - start) = Len(orig)
        /\ {mem[i] : i \in start..(end - 1)} \cap handed = {}
C8_Witness ==
    /\ phase = "iter" /\ start < end
    /\ Len(yieldF) >= 1 /\ Len(yieldB) >= 1

\* C9: draining the iterator with any mix of next() and next_back() yields every
\* element of the original container exactly once: next() returns the elements in
\* increasing index order from the front, next_back() in decreasing index order
\* from the back, and once a call returns none exactly length elements were
\* yielded.
C9_DrainOrder ==
    phase = "iter" =>
        /\ Len(yieldF) + Len(yieldB) <= Len(orig)
        /\ \A i \in 1..Len(yieldF) : yieldF[i] = orig[i]
        /\ \A i \in 1..Len(yieldB) : yieldB[i] = orig[Len(orig) + 1 - i]
        /\ \A id \in Ids : Count(yieldF, id) + Count(yieldB, id) <= 1
        /\ (last.op \in {"next", "next_back"} /\ last.res = "none")
              => Len(yieldF) + Len(yieldB) = Len(orig)
        /\ (last.op = "next" /\ last.res = "some") => last.ret = orig[Len(yieldF)]
        /\ (last.op = "next_back" /\ last.res = "some")
              => last.ret = orig[Len(orig) + 1 - Len(yieldB)]
C9_Witness ==
    /\ phase = "iter" /\ Len(orig) = 3
    /\ yieldF = <<orig[1], orig[2]>> /\ yieldB = <<orig[3]>>
    /\ last.op = "next" /\ last.res = "none"

\* C10: after n appends of v1..vn, from any reachable state, n pops return
\* vn, ..., v1; when the container was empty before the appends it ends with
\* length 0, and a pop on length 0 returns none.
C10_Lifo ==
    /\ npop >= 1 =>
          /\ last.op = "pop" /\ last.res = "some"
          /\ last.ret = pushed[Len(pushed) + 1 - npop]
          /\ len = startLen + Len(pushed) - npop
    /\ (npop >= 1 /\ npop = Len(pushed) /\ startLen = 0) => len = 0
    /\ (last.op = "pop" /\ last.preLen = 0) => (last.res = "none" /\ len = 0)
C10_Witness ==
    /\ Len(pushed) >= 3 /\ npop = Len(pushed) /\ startLen = 0 /\ len = 0

\* The outcomes of a call that mean grow did not finish.
GrowFailures == {"layout_err", "too_large", "alloc_fail"}

\* C11: an insert(i, v) with i <= length that is not stopped by a failing growth
\* succeeds and leaves s[0..i) ++ [v] ++ s[i..length), one element longer, where s
\* is the sequence before the call; also when the call had to grow the buffer.
C11_InsertEffect ==
    (last.op = "insert" /\ last.index <= last.preLen /\ last.res \notin GrowFailures) =>
        /\ last.res = "ok"
        /\ len = last.preLen + 1
        /\ Elems(mem, len) = SubSeq(PreElems, 1, last.index) \o <<last.elem>>
                                \o SubSeq(PreElems, last.index + 1, last.preLen)
\* An insert at the front of a full buffer of two elements, which had to grow.
C11_Witness ==
    /\ last.op = "insert" /\ last.res = "ok" /\ last.index = 0
    /\ last.preLen = 2 /\ last.preCap = 2 /\ cap = 4

\* C12: a remove(i) with i < length returns s[i] and leaves s[0..i) ++ s[i+1..length),
\* one element shorter, with the capacity unchanged.
C12_RemoveEffect ==
    (last.op = "remove" /\ last.index < last.preLen) =>
        /\ last.res = "some"
        /\ last.ret = PreElems[last.index + 1]
        /\ len = last.preLen - 1
        /\ cap = last.preCap
        /\ Elems(mem, len) = SubSeq(PreElems, 1, last.index)
                                \o SubSeq(PreElems, last.index + 2, last.preLen)
\* A remove at the front of three elements.
C12_Witness ==
    /\ last.op = "remove" /\ last.res = "some" /\ last.index = 0 /\ last.preLen = 3

\* The powers of two a capacity can be.
CapPowers == {Pow2(k) : k \in 0..WordBits}
\* The smallest power of two that is at least n; 0 for n = 0.
SmallestPowerAtLeast(n) ==
    IF n = 0 THEN 0
    ELSE CHOOSE p \in CapPowers : p >= n /\ \A q \in CapPowers : q >= n => p <= q
\* Every element that ever entered the buffer was appended, one push after the
\* other, to the container as constructed.
OnlyAppends ==
    phase = "vec" /\ npop = 0 /\ startLen = 0 /\ Len(pushed) = nextId - 1 /\ len = Len(pushed)

\* C13: after n appends to the empty container and nothing else, the capacity is 0
\* for n = 0 and otherwise the smallest power of two that is at least n, reached by
\* 0 -> 1 and doubling; and the capacity changes only in an append or insert that
\* found length == capacity.
C13_GrowthSchedule ==
    /\ OnlyAppends => cap = SmallestPowerAtLeast(len)
    /\ cap # last.preCap =>
          /\ last.op \in {"push", "insert"} /\ last.res = "ok"
          /\ last.preLen = last.preCap
          /\ cap = (IF last.preCap = 0 THEN 1 ELSE 2 * last.preCap)
\* Three appends and nothing else: the capacity went 1, 2, 4.
C13_Witness ==
    /\ OnlyAppends /\ len = 3 /\ cap = 4 /\ last.op = "push" /\ last.preCap = 2

\* C14: no call lowers the capacity: a call leaves it as it was, or takes it from 0
\* to 1, or doubles it; pop and remove leave it as it was; and the capacity is
\* always 0 or a power of two.
C14_CapacityMonotone ==
    /\ \/ cap = last.preCap
       \/ last.preCap = 0 /\ cap = 1
       \/ last.preCap > 0 /\ cap = 2 * last.preCap
    /\ last.op \in {"pop", "remove"} => cap = last.preCap
    /\ cap = 0 \/ cap \in CapPowers
\* A remove from a container that has grown to four slots.
C14_Witness ==
    /\ last.op = "remove" /\ last.res = "some" /\ last.preCap = 4 /\ cap = 4 /\ len = 2

\* C15: as long as the container or the iterator made from it is alive, the capacity
\* is 0 exactly when no allocation is held, an allocation that is held has exactly
\* capacity slots, and a container as constructed has length 0, capacity 0 and no
\* allocation.
C15_AllocationSentinel ==
    /\ phase \notin {"dropped_vec", "dropped_iter"} =>
          /\ (cap = 0) <=> ~held
          /\ DOMAIN mem = 0..(cap - 1)
    /\ phase = "iter" => itCap = cap /\ ((itCap = 0) <=> ~held)
    /\ (last.op = "new" /\ last.res = "ok") => len = 0 /\ cap = 0 /\ ~held
\* A container emptied by pop that still holds its two slots.
C15_Witness ==
    /\ phase = "vec" /\ last.op = "pop" /\ len = 0 /\ cap = 2 /\ held

\* The sequence s back to front.
Reverse(s) == [i \in 1..Len(s) |-> s[Len(s) + 1 - i]]
\* The buffer release that ends the teardown of a container of capacity c.
ReleaseAfter(c) == IF c # 0 THEN <<FreeEvent>> ELSE <<>>

\* C16 as stated: container teardown drops the live elements in forward index order
\* (index 0 first, index length-1 last) and only afterwards releases the buffer.
C16_ForwardThenRelease ==
    phase = "dropped_vec" => last.events = PreElems \o ReleaseAfter(last.preCap)
\* C16, amended: container teardown drops the live elements in reverse index order
\* (index length-1 first, index 0 last) and only afterwards releases the buffer.
C16_ReverseThenRelease ==
    phase = "dropped_vec" => last.events = Reverse(PreElems) \o ReleaseAfter(last.preCap)
\* The teardown of a container of three elements.
C16_Witness ==
    /\ phase = "dropped_vec" /\ last.op = "drop_vec" /\ last.preLen = 3 /\ freed = 1

\* C17: into_iter on a container holding s, followed by next() calls only, yields
\* s[0], s[1], ..., s[length-1] in that order, and next() returns none exactly when
\* all of s has been yielded.
C17_ForwardDrain ==
    /\ last.op = "into_iter" => orig = PreElems
    /\ (phase = "iter" /\ yieldB = <<>>) =>
          /\ Len(yieldF) <= Len(orig)
          /\ yieldF = SubSeq(orig, 1, Len(yieldF))
          /\ (last.op = "next" /\ last.res = "none") => yieldF = orig
          /\ (last.op = "next" /\ last.res = "some") => last.ret = orig[Len(yieldF)]
\* Three elements drained from the front, and the next() after them.
C17_Witness ==
    /\ phase = "iter" /\ Len(orig) = 3 /\ yieldF = orig /\ yieldB = <<>>
    /\ last.op = "next" /\ last.res = "none"

\* C18: once start == end, every later next() and next_back() returns none and
\* leaves start and end as they are: the iterator yields nothing more and never
\* has start < end again.
C18_ExhaustedAbsorbing ==
    [][(phase = "iter" /\ start = end /\ phase' = "iter") =>
          /\ start' = start /\ end' = end
          /\ yieldF' = yieldF /\ yieldB' = yieldB
          /\ last'.op \in {"next", "next_back"} => last'.res = "none"]_vars
\* An iterator drained from both ends that was asked again from the back.
C18_Witness ==
    /\ phase = "iter" /\ start = end /\ Len(yieldF) >= 1 /\ Len(yieldB) >= 1
    /\ last.op = "next_back" /\ last.res = "none" /\ last.preStart = last.preEnd

\* C19: size_hint returns (r, Some(r)) with r = end - start = the length at the
\* conversion minus the number of elements next and next_back have yielded; each
\* successful next or next_back lowers r by exactly 1, and r = 0 exactly when
\* start == end.
C19_SizeHintExact ==
    /\ phase = "iter" =>
          /\ SizeHintLen(start, end) = end - start
          /\ SizeHintLen(start, end) = Len(orig) - (Len(yieldF) + Len(yieldB))
          /\ (SizeHintLen(start, end) = 0) <=> (start = end)
    /\ last.op = "size_hint" =>
          /\ last.ret = end - start
          /\ last.view = <<end - start, end - start>>
    /\ (last.op \in {"next", "next_back"} /\ last.res = "some") =>
          SizeHintLen(start, end) = SizeHintLen(last.preStart, last.preEnd) - 1
\* A size hint of 1 for two-byte elements, after one of two elements was yielded.
C19_Witness ==
    /\ last.op = "size_hint" /\ last.ret = 1 /\ elemSize = 2
    /\ Len(orig) = 2 /\ Len(yieldF) + Len(yieldB) = 1

\* The last call ended in a panic or an abort.
Failed == last.res \notin {"ok", "some", "none"}
\* The last call was an insert or a remove with an index out of bounds.
OutOfBoundsCall ==
    \/ last.op = "insert" /\ last.index > last.preLen
    \/ last.op = "remove" /\ last.index >= last.preLen
\* The last call was an append or insert whose growth failed.
GrowthFailed ==
    last.op \in {"push", "insert"} /\ last.preLen = last.preCap /\ last.res \in GrowFailures
\* pop on length 0 and next / next_back on start == end return none and leave
\* length, capacity, cursors and buffer as they were.
NoneChangesNothing ==
    /\ (last.op = "pop" /\ last.preLen = 0) =>
          /\ last.res = "none"
          /\ len = 0 /\ cap = last.preCap /\ mem = last.preMem /\ held = last.preHeld
    /\ (last.op \in {"next", "next_back"} /\ last.preStart = last.preEnd
            /\ phase = "iter") =>
          /\ last.res = "none"
          /\ start = last.preStart /\ end = last.preEnd
          /\ cap = last.preCap /\ itCap = cap /\ mem = last.preMem /\ held = last.preHeld
    /\ last.res = "none" =>
          \/ last.op = "pop" /\ last.preLen = 0
          \/ last.op \in {"next", "next_back"} /\ last.preStart = last.preEnd

\* C20 as stated: pop on length 0 and next / next_back on start == end return none
\* and change nothing; apart from out-of-bounds insert / remove and growth failure
\* no operation ever fails.
C20_OnlyTwoFailures ==
    /\ NoneChangesNothing
    /\ Failed => OutOfBoundsCall \/ GrowthFailed
\* C20, amended: pop on length 0 and next / next_back on start == end return none
\* and change nothing; apart from the construction over a zero-sized element type,
\* out-of-bounds insert / remove and growth failure no operation ever fails.
C20_FailuresEnumerated ==
    /\ NoneChangesNothing
    /\ Failed => \/ OutOfBoundsCall
                 \/ GrowthFailed
                 \/ last.op = "new" /\ elemSize = 0
\* A pop that found the container empty with its two slots still allocated.
C20_Witness ==
    /\ last.op = "pop" /\ last.res = "none" /\ last.preLen = 0 /\ last.preCap = 2 /\ held

\* C21: when the allocator returns null in a growth started by push or insert, the
\* call ends in handle_alloc_error: the process is gone, the element was not
\* written, length and capacity are what they were, and no call runs after it.
C21_AllocFailureFatal ==
    [][/\ last.alloc # "null"
       /\ last'.alloc = "null" =>
             /\ last'.op \in {"push", "insert"} /\ last'.res = "alloc_fail"
             /\ phase' = "abort"
             /\ len' = len /\ cap' = cap /\ mem' = mem /\ held' = held
             /\ nextId' = nextId]_vars
\* An insert into a full buffer of two slots whose realloc returned null.
C21_Witness ==
    /\ phase = "abort" /\ last.op = "insert" /\ last.alloc = "null"
    /\ last.res = "alloc_fail" /\ last.preCap = 2 /\ len = 2 /\ cap = 2 /\ held

\* The byte size of the buffer never exceeds isize::MAX, and a growth that would
\* exceed it stops before the allocator is asked, with capacity, length, buffer and
\* allocation as they were.
SizeBoundChecked ==
    /\ cap * elemSize <= ISizeMax
    /\ last.res = "too_large" =>
          /\ last.op \in {"push", "insert"} /\ last.preLen = last.preCap
          /\ GrowNewCap(last.preCap) * elemSize > ISizeMax
          /\ last.alloc = "none"
          /\ cap = last.preCap /\ len = last.preLen
          /\ mem = last.preMem /\ held = last.preHeld

C23_ZeroSizedRejected ==
    /\ elemSize = 0 => phase \in {"new", "rejected"}
    /\ phase = "rejected" => last.op = "new" /\ last.res = "panic_zst" /\ elemSize = 0
    /\ last.op = "new" =>
          /\ (elemSize = 0) => last.res = "panic_zst" /\ phase = "rejected"
          /\ (elemSize >= 1) =>
                last.res = "ok" /\ phase = "vec" /\ len = 0 /\ cap = 0 /\ ~held
\* The constructor called for a zero-sized element type.
C23_Witness ==
    /\ phase = "rejected" /\ elemSize = 0 /\ last.op = "new" /\ last.res = "panic_zst"

\* C24: a push(v) immediately followed by pop() gives v back and leaves the length
\* and the element sequence as the push found them; the capacity is not below
\* what it was before the push.
C24_PushPopRoundTrip ==
    (last.op = "pop" /\ npop = 1 /\ pushed # <<>>) =>
        /\ last.res = "some"
        /\ last.ret = pushed[Len(pushed)]
        /\ len = prePush.len
        /\ Elems(mem, len) = prePush.elems
        /\ cap >= prePush.cap /\ cap = last.preCap
\* A push into a full buffer of two elements, which grew it, and the pop after it.
C24_Witness ==
    /\ last.op = "pop" /\ npop = 1 /\ pushed # <<>>
    /\ prePush.len = 2 /\ prePush.cap = 2 /\ cap = 4 /\ len = 2

\* C25: after any sequence of push, pop, insert (index <= length) and remove
\* (index < length) the slice view has exactly length elements, the same and in the
\* same order as the sequence that the abstract operations produce; taking the view
\* changes neither length, capacity nor contents.
C25_ViewRefinesSequence ==
    /\ phase = "vec" => Len(abs) = len /\ Elems(mem, len) = abs
    /\ last.op = "deref" =>
          /\ Len(last.view) = len /\ last.view = abs
          /\ len = last.preLen /\ cap = last.preCap /\ mem = last.preMem
          /\ held = last.preHeld
\* A view of two elements in a buffer of four slots, after an insert and a remove.
C25_Witness ==
    /\ last.op = "deref" /\ Len(last.view) = 2 /\ cap = 4 /\ nextId = 4
    /\ last.view[1] > last.view[2]

\* C26: a push(v) that succeeds writes v at the slot that was `length` and leaves
\* every element of [0, length) where it was, whether or not the buffer had to
\* grow; the growth moves all elements over in order and does not change the
\* length, so the length ends one higher, or as it was when the growth failed.
C26_PushFrame ==
    /\ (last.op = "push" /\ last.res = "ok") =>
          /\ len = last.preLen + 1
          /\ mem[last.preLen] = last.elem
          /\ \A i \in 0..(last.preLen - 1) : mem[i] = last.preMem[i]
          /\ (cap # last.preCap) <=> (last.preLen = last.preCap)
    /\ (last.op = "push" /\ last.res \in GrowFailures) =>
          len = last.preLen /\ mem = last.preMem
\* A push into a full buffer of two elements.
C26_Witness ==
    /\ last.op = "push" /\ last.res = "ok" /\ last.preLen = 2 /\ last.preCap = 2
    /\ cap = 4 /\ len = 3

\* C27: the iterator made from a container of length n and capacity c starts with
\* start at the beginning of the buffer, end = n and capacity c; with n = 0 it
\* starts with start == end, for c = 0 and for c > 0, and for c > 0 it holds the
\* buffer and its teardown releases it.
C27_IterInitialState ==
    /\ last.op = "into_iter" =>
          /\ start = 0 /\ end = last.preLen /\ itCap = last.preCap
          /\ last.preLen = 0 => start = end
          /\ held = last.preHeld
          /\ itCap > 0 => held
    /\ (phase = "dropped_iter" /\ itCap > 0) => freed = 1 /\ ~held
    /\ (phase = "dropped_iter" /\ itCap = 0) => freed = 0
\* The teardown of an iterator made from an emptied container of two slots.
C27_Witness ==
    /\ phase = "dropped_iter" /\ orig = <<>> /\ itCap = 2 /\ start = 0 /\ end = 0
    /\ freed = 1 /\ last.op = "drop_iter"

\* C28: index(idx, arr) returns Some(&arr[idx]) exactly when idx < arr.len() and
\* None otherwise, and reads no slot outside the slice; index(3, [1, 2, 3, 4, 5, 6])
\* is Some(&4).
C28_IndexChecked ==
    last.op = "index" =>
        /\ last.index < Len(arr) =>
              last.res = "some" /\ last.ret = arr[last.index + 1] /\ last.reads = {last.index}
        /\ last.index >= Len(arr) => last.res = "none" /\ last.reads = {}
        /\ \A i \in last.reads : 0 <= i /\ i < Len(arr)
        /\ (arr = <<1, 2, 3, 4, 5, 6>> /\ last.index = 3) => last.ret = 4
\* index(3, [1, 2, 3, 4, 5, 6]).
C28_Witness ==
    /\ arr = <<1, 2, 3, 4, 5, 6>> /\ last.op = "index" /\ last.index = 3
    /\ last.res = "some" /\ last.ret = 4

\* The last call entered grow.
GrowEntered ==
    /\ last.preLen = last.preCap
    /\ \/ last.op = "push"
       \/ last.op = "insert" /\ last.index <= last.preLen

\* C29: whenever grow is entered with capacity > 0, neither 2 * capacity nor the
\* byte size 2 * capacity * size_of(element) exceeds usize::MAX: the doubling is
\* computed without wrapping and Layout::array does not fail. This follows from
\* capacity * size_of(element) <= isize::MAX, which holds for every capacity > 0.
C29_DoublingNeverWraps ==
    /\ cap > 0 =>
          /\ elemSize >= 1 /\ cap * elemSize <= ISizeMax
          /\ 2 * cap <= USizeMax /\ 2 * cap * elemSize <= USizeMax
    /\ (GrowEntered /\ last.preCap > 0) =>
          /\ 2 * last.preCap <= USizeMax
          /\ 2 * last.preCap * elemSize <= USizeMax
          /\ GrowNewCap(last.preCap) = 2 * last.preCap
          /\ last.res # "layout_err"
\* An insert that entered grow with two slots of two bytes: 8 bytes asked for.
C29_Witness ==
    /\ GrowEntered /\ last.op = "insert" /\ last.preCap = 2 /\ elemSize = 2
    /\ last.res = "too_large"

\* What push does to the state it starts in, given what the allocator answered:
\* how the call ends, and the capacity, length and buffer it leaves.
AppendRes ==
    IF last.preLen # last.preCap THEN "ok"
    ELSE IF ~LayoutArrayOk(GrowNewCap(last.preCap)) THEN "layout_err"
    ELSE IF ~AllocSizeOk(GrowNewCap(last.preCap)) THEN "too_large"
    ELSE IF last.alloc = "null" THEN "alloc_fail"
    ELSE "ok"
AppendCap == IF last.preLen = last.preCap THEN GrowNewCap(last.preCap) ELSE last.preCap
AppendEffect ==
    /\ last.res = AppendRes
    /\ IF last.res = "ok"
          THEN /\ len = last.preLen + 1
               /\ cap = AppendCap
               /\ Elems(mem, len) = Append(PreElems, last.elem)
               /\ phase = "vec"
          ELSE /\ len = last.preLen /\ cap = last.preCap /\ mem = last.preMem
               /\ phase = (IF last.res = "alloc_fail" THEN "abort" ELSE "vec")

\* C30: insert(length, v) has the effect of push(v): from the same state and with
\* the same answer of the allocator both end the same way and leave the same
\* length, capacity and element sequence.
C30_InsertAtEndIsPush ==
    /\ last.op = "push" => AppendEffect
    /\ (last.op = "insert" /\ last.index = last.preLen) => AppendEffect
\* An insert at the end of a full buffer of two elements.
C30_Witness ==
    /\ last.op = "insert" /\ last.index = 2 /\ last.preLen = 2 /\ last.preCap = 2
    /\ last.res = "ok" /\ cap = 4 /\ len = 3

\* C31: an insert(i, v) with i <= length that succeeds, immediately followed by
\* remove(i), gives v back and restores the length and the element sequence that
\* the insert found; the capacity is what the insert found, or its doubling (1
\* after 0) when the insert had to grow.
C31_InsertRemoveRoundTrip ==
    (last.op = "remove" /\ preIns.stage = 2) =>
        /\ last.index = preIns.index
        /\ last.res = "some"
        /\ last.ret = preIns.elem
        /\ len = preIns.len
        /\ Elems(mem, len) = preIns.elems
        /\ \/ cap = preIns.cap
           \/ preIns.len = preIns.cap /\ cap = (IF preIns.cap = 0 THEN 1 ELSE 2 * preIns.cap)
\* insert(0, v) into a full buffer of two elements, which grew it, then remove(0).
C31_Witness ==
    /\ last.op = "remove" /\ preIns.stage = 2 /\ preIns.index = 0
    /\ preIns.len = 2 /\ preIns.cap = 2 /\ cap = 4 /\ len = 2

\* C32: under every interleaving of callers of allocate_new_id, spurious failures
\* of compare_exchange_weak included, the IDs returned are pairwise distinct, and
\* after m calls have returned they are exactly 0 .. m-1.
C32_IdsDistinctAndDense ==
    /\ Cardinality(ids) = calls
    /\ ids = 0..(calls - 1)
\* Both concurrent callers have returned, one of them after a failed exchange.
C32_Witness ==
    /\ \A t \in IdThreads : idPc[t] = "done"
    /\ \E t \in IdThreads : retried[t]
    /\ calls >= IdCallers

\* C33: NEXT_ID never exceeds 100 and never wraps; every ID returned is below
\* 100; a call that observes NEXT_ID >= 100 panics and leaves NEXT_ID as it is.
C33_IdState ==
    /\ NEXT_ID <= IdLimit
    /\ \A id \in ids : id < IdLimit
    /\ \A t \in IdThreads :
         /\ idPc[t] = "cas" => current[t] < IdLimit
         /\ idPc[t] = "panicked" => current[t] >= IdLimit
C33_IdStep ==
    /\ NEXT_ID' >= NEXT_ID
    /\ \A t \in IdThreads :
         (idPc[t] # "panicked" /\ idPc'[t] = "panicked") =>
             NEXT_ID >= IdLimit /\ NEXT_ID' = NEXT_ID
    /\ \A t \in IdThreads :
         (idPc[t] \in {"start", "cas"} /\ current'[t] >= IdLimit) => idPc'[t] = "panicked"
    /\ (mainPc = "loop" /\ NEXT_ID >= IdLimit /\ mainPc' # mainPc) =>
             mainPc' = "panicked" /\ NEXT_ID' = NEXT_ID
C33_IdBounded == [](C33_IdState) /\ [][C33_IdStep]_vars
\* All 100 IDs are out; one concurrent caller got one, another first saw a value
\* below 100, lost the exchange, saw 100 and panicked.
C33_Witness ==
    /\ NEXT_ID = IdLimit /\ calls = IdLimit
    /\ \E t \in IdThreads : idPc[t] = "panicked" /\ retried[t]
    /\ \E t \in IdThreads : idPc[t] = "done"

\* C34: under every interleaving of callers of get_data, DATA is stored to at most
\* once, going from null to non-null, and never overwritten; every call returns
\* the pointer stored; a caller that lost the exchange frees its own allocation
\* exactly once and never returns it; the allocation stored is never freed.
C34_InitialisedOnce ==
    /\ lzStores <= 1
    /\ (DATA # Null) <=> (lzStores = 1)
    /\ DATA # Null => DATA \in lzAllocd /\ lzFreed[DATA] = 0
    /\ \A t \in LazyThreads :
         /\ lzPc[t] = "done" => lzRet[t] # Null /\ lzRet[t] = DATA
         /\ lzFreed[t] <= 1
         /\ lzFreed[t] = 1 => t \in lzAllocd /\ t # DATA
         /\ (t \in lzAllocd /\ t # DATA /\ lzPc[t] \in {"ret", "done"}) =>
                lzFreed[t] = 1 /\ lzP[t] # t
\* All callers have returned; two of them lost the exchange and freed their own.
C34_Witness ==
    /\ \A t \in LazyThreads : lzPc[t] = "done"
    /\ Cardinality({t \in LazyThreads : lzFreed[t] = 1}) >= 2

\* C35: at most one thread of mutex_lock is between its successful
\* compare_exchange(false -> true) on LOCKED and its store of false; DATA_MUTEX is
\* never accessed by two at once; a thread whose compare_exchange failed never
\* touches DATA_MUTEX; LOCKED is false again once all threads have finished.
LockHolders == {t \in LockThreads : lkPc[t] \in {"push", "pushing", "store"}}
C35_MutualExclusion ==
    /\ Cardinality(LockHolders) <= 1
    /\ Cardinality(lkIn) <= 1
    /\ lkTouched \subseteq lkWon
    /\ \A t \in LockThreads : (lkPc[t] = "done" /\ t \notin lkWon) => t \notin lkTouched
    /\ (lkSpawned = LockThreadCount /\ \A t \in LockThreads : lkPc[t] = "done") => ~LOCKED
\* All threads have finished; two of them got the lock one after the other, one
\* found it taken; main is reading the string.
C35_Witness ==
    /\ lkMain = "print" /\ MainThread \in lkIn
    /\ Cardinality(lkWon) = 2 /\ DATA_MUTEX = 2
    /\ \E t \in LockThreads : lkPc[t] = "done" /\ t \notin lkWon

\* C36: at most one of the threads ta and tb finds the other's flag still false,
\* so they never both append to S (nor access it at the same time), and S ends
\* as "", "!" or "?".
ScOther(t) == IF t = "ta" THEN "tb" ELSE "ta"
ScPosition(t, op) == IF \E i \in 1..Len(scOrder) : scOrder[i] = <<t, op>>
                     THEN CHOOSE i \in 1..Len(scOrder) : scOrder[i] = <<t, op>>
                     ELSE Len(scOrder) + 1
C36_AtMostOneAppends ==
    /\ Cardinality(scFound) <= 1
    /\ \A t \in scFound : ScPosition(t, "load") < ScPosition(ScOther(t), "store")
    /\ Cardinality(scIn) <= 1
    /\ Len(S) <= 1
    /\ S \in {<<>>, <<"!">>, <<"?">>}
    /\ scMain \in {"print", "printing", "done"} =>
          /\ \A t \in ScThreads : scPc[t] = "done"
          /\ Len(S) = Cardinality(scFound)
\* tb found A false and appended "?", ta found B true; main is printing "?".
C36_Witness ==
    /\ scMain = "printing" /\ S = <<"?">>
    /\ scFound = {"tb"} /\ scSaw["ta"]

\* C37: under weak fairness of the producer and the consumer of thread_condvar,
\* every item that is in the queue is eventually consumed: no wakeup is lost, the
\* consumer does not stay in wait() while the queue holds an item.
Items == 0..(MaxItems - 1)
InQueue(k) == \E i \in 1..Len(queue) : queue[i] = k
WasConsumed(k) == \E i \in 1..Len(consumed) : consumed[i] = k
====
